---- MODULE Spec2Model ----
(***************************************************************************)
(* Model of the input store (useInputStore), the macro-preview hook        *)
(* (useMacroPreview with the auto-sync effect of MacroRegionInputs) and    *)
(* the full-calculation hook (useCalculation with the debounced effect of  *)
(* Dashboard) of the Parkview CMA web client.                              *)
(*                                                                         *)
(* Numbers: a JavaScript number x is modelled by the integer x * 10^6.     *)
(* 2.29 (percentage points) is 2290000, the decimal fraction 0.0229 is     *)
(* 22900, the tolerance 0.001 is 1000.  NaN, +Infinity and -Infinity are   *)
(* three integers outside the range of every finite value of the model;    *)
(* the arithmetic operators below give them their IEEE-754 behaviour.      *)
(***************************************************************************)
EXTENDS Integers, Sequences, FiniteSets, TLC

----------------------------------------------------------------------------
(* Bounds of the exploration *)

\* number of store operations explored from the initial state
MaxOps == 3
\* number of macro-preview requests the hook issues in one behaviour
MaxPreviewRequests == 3
\* number of full-compute passes the hook issues in one behaviour
MaxPasses == 3

----------------------------------------------------------------------------
(* Numbers *)

NonFinite(i) == 2000000000 + i
NaN == NonFinite(1)
PosInf == NonFinite(2)
NegInf == NonFinite(3)

IsNaN(x) == x = NaN
IsInf(x) == x \in {PosInf, NegInf}
IsFinite(x) == ~IsNaN(x) /\ ~IsInf(x)

Abs(x) == IF x < 0 THEN -x ELSE x

\* Math.abs(a - b) > tol : false when the difference is NaN, true when it
\* is infinite
AbsDiffGT(a, b, tol) ==
  IF IsNaN(a) \/ IsNaN(b) THEN FALSE
  ELSE IF IsInf(a) /\ IsInf(b) THEN a # b
  ELSE IF IsInf(a) \/ IsInf(b) THEN TRUE
  ELSE Abs(a - b) > tol

\* x / 100
Div100(x) == IF IsFinite(x) THEN x \div 100 ELSE x

\* x * 100
Mul100(x) == IF IsFinite(x) THEN x * 100 ELSE x

\* Math.round(x * 10000) / 100 : a decimal fraction as percentage points
\* with two decimals (Math.round rounds half up)
RoundToPct(x) == IF IsFinite(x) THEN ((x + 50) \div 100) * 10000 ELSE x

\* h hundredths, e.g. Pct(229) is 2.29
Pct(h) == h * 10000

----------------------------------------------------------------------------
(* lib/constants.ts *)

MacroRegions == {"us", "eurozone", "japan", "em"}
BondTypes == {"global", "hy", "em"}
EquityRegions == {"us", "europe", "japan", "em"}
BaseCurrencies == {"usd", "eur"}
EquityModelTypes == {"ra", "gk"}

DIRECT_FORECAST_KEYS == {"inflation_forecast", "rgdp_growth", "tbill_forecast"}

BUILDING_BLOCK_KEYS ==
  {"population_growth", "productivity_growth", "my_ratio",
   "current_headline_inflation", "long_term_inflation", "current_tbill",
   "country_factor"}

MacroRec(inf, gdp, tb, pop, prod, my, chi, lti, ctb, cf) ==
  [inflation_forecast |-> Pct(inf), rgdp_growth |-> Pct(gdp),
   tbill_forecast |-> Pct(tb), population_growth |-> Pct(pop),
   productivity_growth |-> Pct(prod), my_ratio |-> Pct(my),
   current_headline_inflation |-> Pct(chi), long_term_inflation |-> Pct(lti),
   current_tbill |-> Pct(ctb), country_factor |-> Pct(cf)]

EquityRec(dy, cc, fc, eps, reps, rs) ==
  [dividend_yield |-> Pct(dy), current_caey |-> Pct(cc), fair_caey |-> Pct(fc),
   real_eps_growth |-> Pct(eps), regional_eps_growth |-> Pct(reps),
   reversion_speed |-> Pct(rs)]

EquityGKRec(dy, nb, rg, wedge, mc, cpe, tpe) ==
  [dividend_yield |-> Pct(dy), net_buyback_yield |-> Pct(nb),
   revenue_growth |-> Pct(rg), revenue_gdp_wedge |-> Pct(wedge),
   margin_change |-> Pct(mc), current_pe |-> Pct(cpe), target_pe |-> Pct(tpe)]

InflationLinkedRec(ry, dur, crtp, frtp, beta, lag, liq) ==
  [current_real_yield |-> Pct(ry), duration |-> Pct(dur),
   current_real_term_premium |-> Pct(crtp),
   fair_real_term_premium |-> Pct(frtp), inflation_beta |-> Pct(beta),
   index_lag_drag |-> Pct(lag), liquidity_technical |-> Pct(liq)]

DEFAULT_INPUTS ==
  [macro |->
     [us       |-> MacroRec(229, 120, 354, 40, 120, 210, 250, 220, 367, 0),
      eurozone |-> MacroRec(206, 51, 227, 10, 100, 230, 220, 200, 204, -20),
      japan    |-> MacroRec(165, -46, 71, -50, 80, 250, 200, 150, 75, -50),
      em       |-> MacroRec(380, 346, 723, 100, 250, 150, 450, 350, 600, 50)],
   bonds |->
     [global |-> [current_yield |-> Pct(350), duration |-> Pct(700),
                  fair_term_premium |-> Pct(150),
                  current_term_premium |-> Pct(100)],
      hy     |-> [current_yield |-> Pct(750), duration |-> Pct(400),
                  credit_spread |-> Pct(271), fair_credit_spread |-> Pct(400),
                  default_rate |-> Pct(550), recovery_rate |-> Pct(4000)],
      em     |-> [current_yield |-> Pct(577), duration |-> Pct(550),
                  fair_term_premium |-> Pct(200),
                  current_term_premium |-> Pct(150),
                  default_rate |-> Pct(280), recovery_rate |-> Pct(5500)],
      inflation_linked |->
        [usd |-> InflationLinkedRec(180, 640, 30, 20, 100, 10, 5),
         eur |-> InflationLinkedRec(75, 750, 15, 10, 100, 15, 10)]],
   equity |->
     [us     |-> EquityRec(113, 248, 500, 180, 160, 10000),
      europe |-> EquityRec(300, 550, 550, 120, 160, 10000),
      japan  |-> EquityRec(220, 550, 500, 80, 160, 10000),
      em     |-> EquityRec(300, 650, 600, 300, 280, 10000)],
   absolute_return |->
     [trading_alpha |-> Pct(100), beta_market |-> Pct(30),
      beta_size |-> Pct(10), beta_value |-> Pct(5),
      beta_profitability |-> Pct(5), beta_investment |-> Pct(5),
      beta_momentum |-> Pct(10)]]

DEFAULT_INPUTS_GK_EQUITY ==
  [us     |-> EquityGKRec(130, 150, 550, 200, -50, 2200, 2000),
   europe |-> EquityGKRec(300, 50, 340, 50, 0, 1400, 1400),
   japan  |-> EquityGKRec(220, 80, 250, 50, 30, 1500, 1450),
   em     |-> EquityGKRec(300, -150, 730, 50, 0, 1200, 1200)]

\* A default table as the defaults endpoint can return it (AllInputs): the
\* hardcoded table with some values refreshed
FetchedTableA ==
  [DEFAULT_INPUTS EXCEPT
     !.macro.us.inflation_forecast = Pct(250),
     !.macro.us.population_growth = Pct(50),
     !.bonds.global.duration = Pct(650),
     !.equity.us.dividend_yield = Pct(140),
     !.absolute_return.trading_alpha = Pct(120)]

FetchedTables == {FetchedTableA}

----------------------------------------------------------------------------
(* State *)

VARIABLES
  \* useInputStore
  macro, bonds, equity, equityGK, absoluteReturn, baseCurrency,
  equityModelType, fetchedDefaults, dirtyMacroFields,
  \* the getDefaults() call issued by Dashboard on mount
  defaultsFetch,
  \* the store operation that produced the current state, and their number
  lastOp, nOps,
  \* useMacroPreview / MacroRegionInputs of the mounted region
  pvRegion, computed, pvLoading, pvError, pvTimer, pvInFlight, pvIssued,
  pvMacroRef,
  \* useCalculation / Dashboard
  results, baseResults, calcLoading, calcError, calcTimer, passes, calcIssued,
  \* history: the passes issued since the current burst of changes began
  calcBurst,
  \* FxExplanation: its results prop and what it renders
  fxResults, fxRendered,
  \* useAuthStore, the react_scenarios table, localStorage['react-cma-scenarios']
  \* and the list of ScenarioManager
  user, react_scenarios, localStorage, savedScenarios,
  \* Date.now() / the row ids the database has handed out
  clock,
  \* history: the input sets at the time each scenario was saved
  saveLog

storeVars == <<macro, bonds, equity, equityGK, absoluteReturn, baseCurrency,
               equityModelType, fetchedDefaults, dirtyMacroFields>>
opVars == <<lastOp, nOps>>
previewVars == <<pvRegion, computed, pvLoading, pvError, pvTimer, pvInFlight,
                 pvIssued, pvMacroRef>>
calcVars == <<results, baseResults, calcLoading, calcError, calcTimer, passes,
              calcIssued, calcBurst>>
panelVars == <<fxResults, fxRendered, user, react_scenarios, localStorage,
               savedScenarios, clock, saveLog>>
vars == <<storeVars, defaultsFetch, opVars, previewVars, calcVars, panelVars>>

\* null: no computed preview, no results, no error, no pending timer
Null == [null |-> TRUE]
\* fetchedDefaults: null
NoDefaults == Null

----------------------------------------------------------------------------
(* stores/inputStore.ts *)

isDifferent(value, defaultValue) == AbsDiffGT(value, defaultValue, 1000)

getActiveDefaults ==
  IF fetchedDefaults = NoDefaults THEN DEFAULT_INPUTS ELSE fetchedDefaults

isMacroDirty(region, key) == <<region, key>> \in dirtyMacroFields

\* { ...a, ...b }
Merge(a, b) ==
  [k \in (DOMAIN a) \cup (DOMAIN b) |-> IF k \in DOMAIN b THEN b[k] ELSE a[k]]

\* setMacroValue marking every key it is called for
setMacroValue_markingAll(region, key, value) ==
  /\ macro' = [macro EXCEPT ![region] = Merge(@, [k \in {key} |-> value])]
  /\ dirtyMacroFields' = dirtyMacroFields \cup {<<region, key>>}
  /\ UNCHANGED <<bonds, equity, equityGK, absoluteReturn, baseCurrency,
                 equityModelType, fetchedDefaults>>

\* setMacroValue marking a direct forecast only when it leaves its default
setMacroValue_dirtyIfChanged(region, key, value) ==
  /\ macro' = [macro EXCEPT ![region] = Merge(@, [k \in {key} |-> value])]
  /\ dirtyMacroFields' =
       IF /\ key \in DIRECT_FORECAST_KEYS
          /\ AbsDiffGT(value, getActiveDefaults.macro[region][key], 1000)
       THEN dirtyMacroFields \cup {<<region, key>>}
       ELSE dirtyMacroFields
  /\ UNCHANGED <<bonds, equity, equityGK, absoluteReturn, baseCurrency,
                 equityModelType, fetchedDefaults>>

setMacroValue(region, key, value) ==
  /\ macro' = [macro EXCEPT ![region] = Merge(@, [k \in {key} |-> value])]
  /\ dirtyMacroFields' =
       IF key \in DIRECT_FORECAST_KEYS
       THEN dirtyMacroFields \cup {<<region, key>>}
       ELSE dirtyMacroFields
  /\ UNCHANGED <<bonds, equity, equityGK, absoluteReturn, baseCurrency,
                 equityModelType, fetchedDefaults>>

\* syncedRegionMacro without the dirty test
syncedRegionMacro_ignoringDirty(region, computedValues) ==
  [key \in DOMAIN macro[region] |->
     IF /\ key \in DOMAIN computedValues
        /\ AbsDiffGT(macro[region][key], computedValues[key], 1000)
     THEN computedValues[key]
     ELSE macro[region][key]]

\* newRegionMacro after the loop of syncMacroComputed
syncedRegionMacro(region, computedValues) ==
  [key \in DOMAIN macro[region] |->
     IF /\ key \in DOMAIN computedValues
        /\ ~isMacroDirty(region, key)
        /\ AbsDiffGT(macro[region][key], computedValues[key], 1000)
     THEN computedValues[key]
     ELSE macro[region][key]]

syncMacroComputed(region, computedValues) ==
  /\ macro' = [macro EXCEPT ![region] = syncedRegionMacro(region, computedValues)]
  /\ UNCHANGED <<bonds, equity, equityGK, absoluteReturn, baseCurrency,
                 equityModelType, fetchedDefaults, dirtyMacroFields>>

setBondValue(type, key, value) ==
  /\ bonds' = [bonds EXCEPT ![type] = Merge(@, [k \in {key} |-> value])]
  /\ UNCHANGED <<macro, equity, equityGK, absoluteReturn, baseCurrency,
                 equityModelType, fetchedDefaults, dirtyMacroFields>>

setEquityValue(region, key, value) ==
  /\ equity' = [equity EXCEPT ![region] = Merge(@, [k \in {key} |-> value])]
  /\ UNCHANGED <<macro, bonds, equityGK, absoluteReturn, baseCurrency,
                 equityModelType, fetchedDefaults, dirtyMacroFields>>

setEquityGKValue(region, key, value) ==
  /\ equityGK' = [equityGK EXCEPT ![region] = Merge(@, [k \in {key} |-> value])]
  /\ UNCHANGED <<macro, bonds, equity, absoluteReturn, baseCurrency,
                 equityModelType, fetchedDefaults, dirtyMacroFields>>

\* setEquityModelType starting the newly selected model from its defaults
setEquityModelType_resettingInputs(type) ==
  /\ equityModelType' = type
  /\ equity' = IF type = "ra" THEN getActiveDefaults.equity ELSE equity
  /\ equityGK' = IF type = "gk" THEN DEFAULT_INPUTS_GK_EQUITY ELSE equityGK
  /\ UNCHANGED <<macro, bonds, absoluteReturn, baseCurrency,
                 fetchedDefaults, dirtyMacroFields>>

setEquityModelType(type) ==
  /\ equityModelType' = type
  /\ UNCHANGED <<macro, bonds, equity, equityGK, absoluteReturn, baseCurrency,
                 fetchedDefaults, dirtyMacroFields>>

setAbsoluteReturnValue(key, value) ==
  /\ absoluteReturn' = Merge(absoluteReturn, [k \in {key} |-> value])
  /\ UNCHANGED <<macro, bonds, equity, equityGK, baseCurrency,
                 equityModelType, fetchedDefaults, dirtyMacroFields>>

setBaseCurrency(currency) ==
  /\ baseCurrency' = currency
  /\ UNCHANGED <<macro, bonds, equity, equityGK, absoluteReturn,
                 equityModelType, fetchedDefaults, dirtyMacroFields>>

\* resetToDefaults restoring the hardcoded table whatever was fetched
resetToDefaults_hardcoded ==
  /\ macro' = DEFAULT_INPUTS.macro
  /\ bonds' = DEFAULT_INPUTS.bonds
  /\ equity' = DEFAULT_INPUTS.equity
  /\ equityGK' = DEFAULT_INPUTS_GK_EQUITY
  /\ absoluteReturn' = DEFAULT_INPUTS.absolute_return
  /\ dirtyMacroFields' = {}
  /\ UNCHANGED <<baseCurrency, equityModelType, fetchedDefaults>>

\* resetToDefaults keeping the dirty flags
resetToDefaults_keepingDirty ==
  /\ macro' = getActiveDefaults.macro
  /\ bonds' = getActiveDefaults.bonds
  /\ equity' = getActiveDefaults.equity
  /\ equityGK' = DEFAULT_INPUTS_GK_EQUITY
  /\ absoluteReturn' = getActiveDefaults.absolute_return
  /\ UNCHANGED <<dirtyMacroFields, baseCurrency, equityModelType,
                 fetchedDefaults>>

resetToDefaults ==
  /\ macro' = getActiveDefaults.macro
  /\ bonds' = getActiveDefaults.bonds
  /\ equity' = getActiveDefaults.equity
  /\ equityGK' = DEFAULT_INPUTS_GK_EQUITY
  /\ absoluteReturn' = getActiveDefaults.absolute_return
  /\ dirtyMacroFields' = {}
  /\ UNCHANGED <<baseCurrency, equityModelType, fetchedDefaults>>

\* applyFetchedDefaults leaving the dirty flags as they are
applyFetchedDefaults_keepingDirty(defaults) ==
  /\ fetchedDefaults' = defaults
  /\ macro' = defaults.macro
  /\ bonds' = defaults.bonds
  /\ equity' = defaults.equity
  /\ absoluteReturn' = defaults.absolute_return
  /\ UNCHANGED <<dirtyMacroFields, equityGK, baseCurrency, equityModelType>>

\* the success branch of fetchDefaultsFromAPI
applyFetchedDefaults(defaults) ==
  /\ fetchedDefaults' = defaults
  /\ macro' = defaults.macro
  /\ bonds' = defaults.bonds
  /\ equity' = defaults.equity
  /\ absoluteReturn' = defaults.absolute_return
  /\ dirtyMacroFields' = {}
  /\ UNCHANGED <<equityGK, baseCurrency, equityModelType>>

\* rejectFetchedDefaults putting the hardcoded table over the inputs
rejectFetchedDefaults_resettingInputs ==
  /\ macro' = DEFAULT_INPUTS.macro
  /\ bonds' = DEFAULT_INPUTS.bonds
  /\ equity' = DEFAULT_INPUTS.equity
  /\ absoluteReturn' = DEFAULT_INPUTS.absolute_return
  /\ dirtyMacroFields' = {}
  /\ UNCHANGED <<equityGK, baseCurrency, equityModelType, fetchedDefaults>>

\* the catch block of fetchDefaultsFromAPI: a warning in development, no set()
rejectFetchedDefaults ==
  UNCHANGED <<macro, bonds, equity, equityGK, absoluteReturn, baseCurrency,
              equityModelType, fetchedDefaults, dirtyMacroFields>>

\* overrides[key] is present (and truthy)
Has(overrides, key) == key \in DOMAIN overrides

loadedMacro(overrides) ==
  [region \in MacroRegions |->
     IF Has(overrides, "macro") /\ region \in DOMAIN overrides.macro
     THEN Merge(macro[region], overrides.macro[region])
     ELSE macro[region]]

\* loadedDirtyFields marking nothing
loadedDirtyFields_unmarked(overrides) == dirtyMacroFields

loadedDirtyFields(overrides) ==
  dirtyMacroFields \cup
    (IF Has(overrides, "macro")
     THEN {<<region, key>> \in MacroRegions \X DIRECT_FORECAST_KEYS :
             /\ region \in DOMAIN overrides.macro
             /\ key \in DOMAIN overrides.macro[region]}
     ELSE {})

loadedBonds(overrides) ==
  [type \in DOMAIN bonds |->
     IF type \in BondTypes /\ Has(overrides, "bonds_" \o type)
     THEN Merge(bonds[type], overrides["bonds_" \o type])
     ELSE bonds[type]]

loadedEquity(overrides) ==
  [region \in EquityRegions |->
     IF Has(overrides, "equity_" \o region)
     THEN Merge(equity[region], overrides["equity_" \o region])
     ELSE equity[region]]

loadedAbsoluteReturn(overrides) ==
  IF Has(overrides, "absolute_return")
  THEN Merge(absoluteReturn, overrides.absolute_return)
  ELSE absoluteReturn

loadScenario(overrides) ==
  /\ macro' = loadedMacro(overrides)
  /\ bonds' = loadedBonds(overrides)
  /\ equity' = loadedEquity(overrides)
  /\ absoluteReturn' = loadedAbsoluteReturn(overrides)
  /\ dirtyMacroFields' = loadedDirtyFields(overrides)
  /\ UNCHANGED <<equityGK, baseCurrency, equityModelType, fetchedDefaults>>

\* macroOverridesOf deciding every field by its distance from the default
macroOverridesOf_byValue(region) ==
  LET current == macro[region]
      regionDefaults == getActiveDefaults.macro[region]
      included ==
        {key \in DOMAIN current :
           /\ key \in DOMAIN regionDefaults
           /\ isDifferent(current[key], regionDefaults[key])}
  IN [key \in included |->
        IF key = "my_ratio" THEN current[key] ELSE Div100(current[key])]

\* regionOverrides of getOverrides for one macro region
macroOverridesOf(region) ==
  LET current == macro[region]
      regionDefaults == getActiveDefaults.macro[region]
      included ==
        {key \in DOMAIN current :
           IF key \in DIRECT_FORECAST_KEYS
           THEN isMacroDirty(region, key)
           ELSE /\ key \in DOMAIN regionDefaults
                /\ isDifferent(current[key], regionDefaults[key])}
  IN [key \in included |->
        IF key = "my_ratio" THEN current[key] ELSE Div100(current[key])]

\* bondOverridesOf comparing with the hardcoded table
bondOverridesOf_hardcoded(type) ==
  LET current == bonds[type]
      bondDefaults == DEFAULT_INPUTS.bonds[type]
      included ==
        {key \in DOMAIN current :
           /\ key \in DOMAIN bondDefaults
           /\ isDifferent(current[key], bondDefaults[key])}
  IN [key \in included |->
        IF key = "duration" THEN current[key] ELSE Div100(current[key])]

\* bondOverrides of getOverrides for one bond type
bondOverridesOf(type) ==
  LET current == bonds[type]
      bondDefaults == getActiveDefaults.bonds[type]
      included ==
        {key \in DOMAIN current :
           /\ key \in DOMAIN bondDefaults
           /\ isDifferent(current[key], bondDefaults[key])}
  IN [key \in included |->
        IF key = "duration" THEN current[key] ELSE Div100(current[key])]

gkRatioKeys == {"current_pe", "target_pe"}

\* equityOverrides of getOverrides for one equity region, by model type
equityOverridesOf(region) ==
  IF equityModelType = "gk"
  THEN LET current == equityGK[region]
           regionDefaults == DEFAULT_INPUTS_GK_EQUITY[region]
           included ==
             {key \in DOMAIN current :
                /\ key \in DOMAIN regionDefaults
                /\ isDifferent(current[key], regionDefaults[key])}
       IN [key \in included |->
             IF key \in gkRatioKeys THEN current[key] ELSE Div100(current[key])]
  ELSE LET current == equity[region]
           eqDefaults == getActiveDefaults.equity[region]
           included ==
             {key \in DOMAIN current :
                /\ key \in DOMAIN eqDefaults
                /\ isDifferent(current[key], eqDefaults[key])}
       IN [key \in included |-> Div100(current[key])]

\* arOverrides of getOverrides
absoluteReturnOverrides ==
  LET arDefaults == getActiveDefaults.absolute_return
      included ==
        {key \in DOMAIN absoluteReturn :
           /\ key \in DOMAIN arDefaults
           /\ isDifferent(absoluteReturn[key], arDefaults[key])}
  IN [key \in included |->
        IF key = "trading_alpha" THEN Div100(absoluteReturn[key])
        ELSE absoluteReturn[key]]

\* the payload without values
EmptyOverrides == <<>>

\* Object.keys(o).length > 0
NonEmpty(o) == DOMAIN o # {}

macroOverrides ==
  [region \in {r \in MacroRegions : NonEmpty(macroOverridesOf(r))} |->
     macroOverridesOf(region)]

getOverrides ==
  LET keys ==
        (IF NonEmpty(macroOverrides) THEN {"macro"} ELSE {})
        \cup {"bonds_" \o t : t \in {b \in BondTypes : NonEmpty(bondOverridesOf(b))}}
        \cup {"equity_" \o r : r \in {e \in EquityRegions : NonEmpty(equityOverridesOf(e))}}
        \cup (IF NonEmpty(absoluteReturnOverrides) THEN {"absolute_return"} ELSE {})
  IN [k \in keys |->
        CASE k = "macro" -> macroOverrides
          [] k = "bonds_global" -> bondOverridesOf("global")
          [] k = "bonds_hy" -> bondOverridesOf("hy")
          [] k = "bonds_em" -> bondOverridesOf("em")
          [] k = "equity_us" -> equityOverridesOf("us")
          [] k = "equity_europe" -> equityOverridesOf("europe")
          [] k = "equity_japan" -> equityOverridesOf("japan")
          [] k = "equity_em" -> equityOverridesOf("em")
          [] k = "absolute_return" -> absoluteReturnOverrides]

\* the payload carries key in one of its flat sections
InSection(overrides, section, key) ==
  /\ Has(overrides, section)
  /\ key \in DOMAIN overrides[section]

\* the payload carries (region, key) in its macro section
InPayload(overrides, region, key) ==
  /\ Has(overrides, "macro")
  /\ region \in DOMAIN overrides.macro
  /\ key \in DOMAIN overrides.macro[region]

----------------------------------------------------------------------------
(* Inputs explored *)

\* 0.0005, inside the tolerance of 0.001, and 1.00, outside it
Small == Div100(Pct(5))
Large == Pct(100)

D(region, key) == DEFAULT_INPUTS.macro[region][key]

\* arguments of setMacroValue: a direct forecast, a building block in
\* percentage points and the ratio building block, each at the default,
\* within the tolerance of it and away from it; and non-finite numbers
SetMacroInputs ==
  {<<"us", key, D("us", key) + d>> :
     key \in {"inflation_forecast", "population_growth", "my_ratio"},
     d \in {0, Small, Large}}
  \cup {<<"us", "inflation_forecast", NaN>>,
        <<"us", "population_growth", PosInf>>,
        <<"em", "tbill_forecast", D("em", "tbill_forecast") + Large>>}

\* arguments of syncMacroComputed
SyncInputs ==
  {<<"us", [inflation_forecast |-> Pct(304), rgdp_growth |-> Pct(120),
            tbill_forecast |-> Pct(354)]>>,
   <<"us", [inflation_forecast |-> Pct(229) + Small]>>,
   <<"us", [inflation_forecast |-> Pct(304)]>>,
   <<"us", [population_growth |-> Pct(90)]>>}

SetBondInputs ==
  {<<"global", "current_yield", Pct(450)>>, <<"global", "duration", Pct(800)>>,
   <<"global", "duration", Pct(700)>>}

SetEquityInputs == {<<"us", "dividend_yield", Pct(213)>>}

SetEquityGKInputs ==
  {<<"us", "revenue_growth", Pct(650)>>, <<"us", "current_pe", Pct(2500)>>}

SetAbsoluteReturnInputs ==
  {<<"trading_alpha", Pct(200)>>, <<"beta_market", Pct(50)>>}

\* payloads of loadScenario, in the units of the store
ScenarioA ==
  [macro |-> [us |-> [inflation_forecast |-> Pct(300),
                      population_growth |-> Pct(80)],
              em |-> [rgdp_growth |-> Pct(400)]]]

ScenarioB ==
  [macro |-> [us |-> [tbill_forecast |-> Pct(354)]],
   bonds_global |-> [duration |-> Pct(800)],
   equity_us |-> [dividend_yield |-> Pct(200)],
   absolute_return |-> [trading_alpha |-> Pct(150)]]

ScenarioC ==
  [equity_us |-> [current_pe |-> Pct(2500), revenue_growth |-> Pct(600)]]

LoadInputs == {ScenarioA, ScenarioB, ScenarioC}

----------------------------------------------------------------------------
(* Initial state: the store as created, Dashboard and the macro panel of   *)
(* one region mounted                                                      *)

StoreInit ==
  /\ macro = DEFAULT_INPUTS.macro
  /\ bonds = DEFAULT_INPUTS.bonds
  /\ equity = DEFAULT_INPUTS.equity
  /\ equityGK = DEFAULT_INPUTS_GK_EQUITY
  /\ absoluteReturn = DEFAULT_INPUTS.absolute_return
  /\ baseCurrency = "usd"
  /\ equityModelType = "gk"
  /\ fetchedDefaults = NoDefaults
  /\ dirtyMacroFields = {}
  /\ defaultsFetch = "pending"
  /\ lastOp = [op |-> "init"]
  /\ nOps = 0

PreviewInit ==
  /\ pvRegion = "us"
  /\ computed = Null
  /\ pvLoading = FALSE
  /\ pvError = Null
  /\ pvTimer = Null
  /\ pvInFlight = {}
  /\ pvIssued = 0
  /\ pvMacroRef = "hardcoded"

\* a compute pass: calculate() has read the overrides and awaits
\* Promise.all of the current-scenario and the baseline request
NewPass(id, overrides, currency) ==
  [id |-> id, overrides |-> overrides, baseCurrency |-> currency,
   current |-> "pending", baseline |-> "pending"]

\* Dashboard has mounted: the mount effect of useCalculation has called
\* calculate(), the debounce effect of Dashboard has set its first timer
CalcInit ==
  /\ results = Null
  /\ baseResults = Null
  /\ calcLoading = TRUE
  /\ calcError = Null
  /\ calcTimer = [baseCurrency |-> "usd"]
  /\ passes = {NewPass(1, EmptyOverrides, "usd")}
  /\ calcIssued = 1
  /\ calcBurst = Null

\* FxExplanation is not mounted before the first results arrive; nobody is
\* signed in and nothing is stored
Init ==
  /\ StoreInit /\ PreviewInit /\ CalcInit
  /\ fxResults = Null
  /\ fxRendered = Null
  /\ user = Null
  /\ react_scenarios = {}
  /\ localStorage = <<>>
  /\ savedScenarios = {}
  /\ clock = 0
  /\ saveLog = <<>>

----------------------------------------------------------------------------
(* The store driven through its interface                                   *)

Op(rec) ==
  /\ nOps < MaxOps
  /\ nOps' = nOps + 1
  /\ lastOp' = rec
  /\ UNCHANGED panelVars

hooksUnchanged == UNCHANGED <<previewVars, calcVars>>

SetMacroValue ==
  \E in \in SetMacroInputs :
    /\ setMacroValue(in[1], in[2], in[3])
    /\ Op([op |-> "setMacroValue", region |-> in[1], key |-> in[2],
           value |-> in[3]])
    /\ UNCHANGED defaultsFetch /\ hooksUnchanged

SyncMacroComputed ==
  \E in \in SyncInputs :
    /\ syncMacroComputed(in[1], in[2])
    /\ Op([op |-> "syncMacroComputed", region |-> in[1],
           computedValues |-> in[2]])
    /\ UNCHANGED defaultsFetch /\ hooksUnchanged

SetBondValue ==
  \E in \in SetBondInputs :
    /\ setBondValue(in[1], in[2], in[3])
    /\ Op([op |-> "setBondValue", type |-> in[1], key |-> in[2],
           value |-> in[3]])
    /\ UNCHANGED defaultsFetch /\ hooksUnchanged

SetEquityValue ==
  \E in \in SetEquityInputs :
    /\ setEquityValue(in[1], in[2], in[3])
    /\ Op([op |-> "setEquityValue", region |-> in[1], key |-> in[2],
           value |-> in[3]])
    /\ UNCHANGED defaultsFetch /\ hooksUnchanged

SetEquityGKValue ==
  \E in \in SetEquityGKInputs :
    /\ setEquityGKValue(in[1], in[2], in[3])
    /\ Op([op |-> "setEquityGKValue", region |-> in[1], key |-> in[2],
           value |-> in[3]])
    /\ UNCHANGED defaultsFetch /\ hooksUnchanged

SetEquityModelType ==
  \E type \in EquityModelTypes :
    /\ setEquityModelType(type)
    /\ Op([op |-> "setEquityModelType", type |-> type])
    /\ UNCHANGED defaultsFetch /\ hooksUnchanged

SetAbsoluteReturnValue ==
  \E in \in SetAbsoluteReturnInputs :
    /\ setAbsoluteReturnValue(in[1], in[2])
    /\ Op([op |-> "setAbsoluteReturnValue", key |-> in[1], value |-> in[2]])
    /\ UNCHANGED defaultsFetch /\ hooksUnchanged

SetBaseCurrency ==
  \E currency \in BaseCurrencies :
    /\ setBaseCurrency(currency)
    /\ Op([op |-> "setBaseCurrency", currency |-> currency])
    /\ UNCHANGED defaultsFetch /\ hooksUnchanged

ResetToDefaults ==
  /\ resetToDefaults
  /\ Op([op |-> "resetToDefaults", before |-> getOverrides])
  /\ UNCHANGED defaultsFetch /\ hooksUnchanged

LoadScenario ==
  \E overrides \in LoadInputs :
    /\ loadScenario(overrides)
    /\ Op([op |-> "loadScenario", overrides |-> overrides])
    /\ UNCHANGED defaultsFetch /\ hooksUnchanged

\* fetchDefaultsFromAPI: getDefaults() resolves
FetchDefaultsResolve ==
  /\ defaultsFetch = "pending"
  /\ \E defaults \in FetchedTables : applyFetchedDefaults(defaults)
  /\ defaultsFetch' = "resolved"
  /\ Op([op |-> "fetchDefaultsResolve", dirtyBefore |-> dirtyMacroFields])
  /\ hooksUnchanged

\* fetchDefaultsFromAPI: getDefaults() rejects, the catch block logs
FetchDefaultsReject ==
  /\ defaultsFetch = "pending"
  /\ defaultsFetch' = "rejected"
  /\ rejectFetchedDefaults
  /\ Op([op |-> "fetchDefaultsReject"])
  /\ hooksUnchanged

Next ==
  \/ SetMacroValue
  \/ SyncMacroComputed
  \/ SetBondValue
  \/ SetEquityValue
  \/ SetEquityGKValue
  \/ SetEquityModelType
  \/ SetAbsoluteReturnValue
  \/ SetBaseCurrency
  \/ ResetToDefaults
  \/ LoadScenario
  \/ FetchDefaultsResolve
  \/ FetchDefaultsReject

Spec == Init /\ [][Next]_vars

----------------------------------------------------------------------------
(* Claims about the store                                                   *)

\* C1: sticky override.  When setMacroValue(r, f, V) on a direct-forecast
\* field is followed by syncMacroComputed(r, {f: W, ...}), the stored value of
\* (r, f) is still V after the sync.
C1_StickyOverride ==
  [][(/\ lastOp.op = "setMacroValue"
      /\ lastOp.key \in DIRECT_FORECAST_KEYS
      /\ lastOp'.op = "syncMacroComputed"
      /\ lastOp'.region = lastOp.region
      /\ lastOp.key \in DOMAIN lastOp'.computedValues)
     => macro'[lastOp.region][lastOp.key] = lastOp.value]_vars

\* a sync has just been applied with a value W, more than the tolerance away
\* from the stored V, for a direct field the user had set
C1_Witness ==
  /\ lastOp.op = "syncMacroComputed"
  /\ \E key \in DIRECT_FORECAST_KEYS \cap DOMAIN lastOp.computedValues :
       /\ isMacroDirty(lastOp.region, key)
       /\ AbsDiffGT(macro[lastOp.region][key], lastOp.computedValues[key], 1000)

\* C3: a direct-forecast field of a region is in the payload of getOverrides
\* if and only if that (region, field) is dirty, whatever its value.
C3_DirectIncludedIffDirty ==
  LET overrides == getOverrides
  IN \A region \in MacroRegions, key \in DIRECT_FORECAST_KEYS :
       InPayload(overrides, region, key) <=> isMacroDirty(region, key)

\* a dirty field that equals its default is in the payload, while a field
\* that is not dirty and differs from its default is not
C3_Witness ==
  /\ \E region \in MacroRegions, key \in DIRECT_FORECAST_KEYS :
       /\ isMacroDirty(region, key)
       /\ macro[region][key] = getActiveDefaults.macro[region][key]
       /\ InPayload(getOverrides, region, key)
  /\ \E region \in MacroRegions, key \in DIRECT_FORECAST_KEYS :
       /\ ~isMacroDirty(region, key)
       /\ isDifferent(macro[region][key], getActiveDefaults.macro[region][key])
       /\ ~InPayload(getOverrides, region, key)

\* C4: getOverrides returns the empty payload right after resetToDefaults,
\* whatever the state before the reset.
C4_ResetThenEmpty ==
  lastOp.op = "resetToDefaults" => getOverrides = EmptyOverrides

\* a reset of a state whose payload was not empty, under a fetched table
C4_Witness ==
  /\ lastOp.op = "resetToDefaults"
  /\ lastOp.before # EmptyOverrides
  /\ fetchedDefaults # NoDefaults

\* C5: after loadScenario(O) every direct-forecast field present in O is
\* dirty and is in the payload of getOverrides.
C5_LoadThenExport ==
  lastOp.op = "loadScenario" =>
    LET overrides == getOverrides
    IN \A region \in MacroRegions, key \in DIRECT_FORECAST_KEYS :
         InPayload(lastOp.overrides, region, key) =>
           /\ isMacroDirty(region, key)
           /\ InPayload(overrides, region, key)

\* a scenario has been loaded that carries a direct forecast equal to the
\* default of its field
C5_Witness ==
  /\ lastOp.op = "loadScenario"
  /\ \E region \in MacroRegions, key \in DIRECT_FORECAST_KEYS :
       /\ InPayload(lastOp.overrides, region, key)
       /\ lastOp.overrides.macro[region][key] =
            getActiveDefaults.macro[region][key]

\* every number of a flat record is finite
FiniteRecord(rec) == \A key \in DOMAIN rec : IsFinite(rec[key])

\* no input field of the store holds NaN or an infinity
AllStoredFinite ==
  /\ \A region \in MacroRegions : FiniteRecord(macro[region])
  /\ \A type \in BondTypes : FiniteRecord(bonds[type])
  /\ \A region \in EquityRegions :
       FiniteRecord(equity[region]) /\ FiniteRecord(equityGK[region])
  /\ FiniteRecord(absoluteReturn)

\* C7: a setter called with a non-finite value leaves the store as it was,
\* and no state stores NaN or an infinity.
C7_NonFiniteRejected ==
  /\ []AllStoredFinite
  /\ [][(lastOp'.op = "setMacroValue" /\ ~IsFinite(lastOp'.value))
        => UNCHANGED storeVars]_vars

\* C11: a building-block field of a macro region, a bond field, an equity
\* field of the selected model and an absolute-return field are in the payload
\* of getOverrides if and only if the stored value is more than 0.001 away
\* from the active default, whatever the dirty flags are.
C11_IncludedIffAwayFromDefault ==
  LET overrides == getOverrides
      defaults == getActiveDefaults
  IN /\ \A region \in MacroRegions, key \in BUILDING_BLOCK_KEYS :
          InPayload(overrides, region, key) <=>
            AbsDiffGT(macro[region][key], defaults.macro[region][key], 1000)
     /\ \A type \in BondTypes : \A key \in DOMAIN defaults.bonds[type] :
          InSection(overrides, "bonds_" \o type, key) <=>
            AbsDiffGT(bonds[type][key], defaults.bonds[type][key], 1000)
     /\ \A region \in EquityRegions :
          IF equityModelType = "gk"
          THEN \A key \in DOMAIN DEFAULT_INPUTS_GK_EQUITY[region] :
                 InSection(overrides, "equity_" \o region, key) <=>
                   AbsDiffGT(equityGK[region][key],
                             DEFAULT_INPUTS_GK_EQUITY[region][key], 1000)
          ELSE \A key \in DOMAIN defaults.equity[region] :
                 InSection(overrides, "equity_" \o region, key) <=>
                   AbsDiffGT(equity[region][key],
                             defaults.equity[region][key], 1000)
     /\ \A key \in DOMAIN defaults.absolute_return :
          InSection(overrides, "absolute_return", key) <=>
            AbsDiffGT(absoluteReturn[key], defaults.absolute_return[key], 1000)

\* under a fetched table a building block stored away from the fetched default
\* is exported, and so is a bond field, with no dirty flag set
C11_Witness ==
  /\ fetchedDefaults # NoDefaults
  /\ dirtyMacroFields = {}
  /\ \E region \in MacroRegions, key \in BUILDING_BLOCK_KEYS :
       InPayload(getOverrides, region, key)
  /\ \E type \in BondTypes : \E key \in DOMAIN bonds[type] :
       InSection(getOverrides, "bonds_" \o type, key)

\* the value a stored field has after a payload section was merged onto it
MergedValue(section, key, before) ==
  IF key \in DOMAIN section THEN section[key] ELSE before

\* the section of a payload, empty when the payload has none
SectionOf(overrides, name) ==
  IF Has(overrides, name) THEN overrides[name] ELSE <<>>

\* C12: loadScenario(O) merges O onto the state.  Every macro, bond, equity
\* (RA and Grinold-Kroner) and absolute-return field present in O takes the
\* value O gives it, every field absent from O keeps its value, and the dirty
\* flag of a direct-forecast field absent from O is unchanged.  A field name
\* the two equity input sets share may be taken by either set.
C12_LoadMergesPayload ==
  [][lastOp'.op = "loadScenario" =>
       LET O == lastOp'.overrides
           macroOf(region) == SectionOf(SectionOf(O, "macro"), region)
           equityOf(region) == SectionOf(O, "equity_" \o region)
       IN /\ \A region \in MacroRegions : \A key \in DOMAIN macro[region] :
               macro'[region][key] =
                 MergedValue(macroOf(region), key, macro[region][key])
          /\ \A type \in BondTypes : \A key \in DOMAIN bonds[type] :
               bonds'[type][key] =
                 MergedValue(SectionOf(O, "bonds_" \o type), key,
                             bonds[type][key])
          /\ \A region \in EquityRegions :
               /\ \A key \in DOMAIN DEFAULT_INPUTS.equity[region] :
                    \/ equity'[region][key] =
                         MergedValue(equityOf(region), key, equity[region][key])
                    \/ /\ key \in DOMAIN DEFAULT_INPUTS_GK_EQUITY[region]
                       /\ equity'[region][key] = equity[region][key]
               /\ \A key \in DOMAIN DEFAULT_INPUTS_GK_EQUITY[region] :
                    \/ equityGK'[region][key] =
                         MergedValue(equityOf(region), key,
                                     equityGK[region][key])
                    \/ /\ key \in DOMAIN DEFAULT_INPUTS.equity[region]
                       /\ equityGK'[region][key] = equityGK[region][key]
          /\ \A key \in DOMAIN absoluteReturn :
               absoluteReturn'[key] =
                 MergedValue(SectionOf(O, "absolute_return"), key,
                             absoluteReturn[key])
          /\ \A region \in MacroRegions, key \in DIRECT_FORECAST_KEYS :
               ~InPayload(O, region, key) =>
                 (isMacroDirty(region, key) <=>
                    <<region, key>> \in dirtyMacroFields')]_vars

\* C13: setEquityModelType changes the model-type tag and nothing else: the
\* RA input set and the Grinold-Kroner input set of every region, and every
\* other field of the store, are as they were.
C13_ModelSwitchKeepsInputs ==
  [][lastOp'.op = "setEquityModelType" =>
       /\ equityModelType' = lastOp'.type
       /\ equity' = equity
       /\ equityGK' = equityGK
       /\ UNCHANGED <<macro, bonds, absoluteReturn, baseCurrency,
                      fetchedDefaults, dirtyMacroFields>>]_vars

\* the tag has been switched to RA while both input sets held edited values
C13_Witness ==
  /\ lastOp.op = "setEquityModelType"
  /\ equityModelType = "ra"
  /\ equityGK # DEFAULT_INPUTS_GK_EQUITY
  /\ equity # getActiveDefaults.equity

C16_ResetRestoresActiveDefaults ==
  lastOp.op = "resetToDefaults" =>
    /\ macro = getActiveDefaults.macro
    /\ bonds = getActiveDefaults.bonds
    /\ equity = getActiveDefaults.equity
    /\ equityGK = DEFAULT_INPUTS_GK_EQUITY
    /\ absoluteReturn = getActiveDefaults.absolute_return
    /\ dirtyMacroFields = {}
    /\ getActiveDefaults =
         (IF defaultsFetch = "resolved" THEN fetchedDefaults ELSE DEFAULT_INPUTS)

\* a reset under a fetched table of a store whose macro inputs had been edited
C16_Witness ==
  /\ lastOp.op = "resetToDefaults"
  /\ Has(lastOp.before, "macro")
  /\ defaultsFetch = "resolved"
  /\ macro = FetchedTableA.macro
  /\ macro # DEFAULT_INPUTS.macro

\* C18: setMacroValue on a building-block field stores the value it is given
\* and leaves the set of dirty (region, field) pairs exactly as it was.
C18_SetBuildingBlockKeepsFlags ==
  [][(/\ lastOp'.op = "setMacroValue"
      /\ lastOp'.key \in BUILDING_BLOCK_KEYS)
     => /\ macro'[lastOp'.region][lastOp'.key] = lastOp'.value
        /\ dirtyMacroFields' = dirtyMacroFields]_vars

\* a building block has been set to a value away from its default while a
\* direct forecast was dirty
C18_Witness ==
  /\ lastOp.op = "setMacroValue"
  /\ lastOp.key \in BUILDING_BLOCK_KEYS
  /\ isDifferent(lastOp.value, getActiveDefaults.macro[lastOp.region][lastOp.key])
  /\ macro[lastOp.region][lastOp.key] = lastOp.value
  /\ dirtyMacroFields # {}

----------------------------------------------------------------------------
(* Macro preview of the backend (POST /api/calculate/macro-preview)         *)

\* demographic effect of the MY ratio.  The function itself is not part of
\* the client; these are its values at the four default ratios, the ones for
\* which the default building blocks give the default forecasts
sigmoid_my_ratio(my_ratio) ==
  CASE my_ratio = Pct(150) -> 4600
    [] my_ratio = Pct(210) -> -1000
    [] my_ratio = Pct(230) -> -2900
    [] my_ratio = Pct(250) -> -4600

\* adjustment = -0.003 if region in ['us', 'eurozone', 'japan'] else -0.005
adjustmentOf(region) ==
  IF region \in {"us", "eurozone", "japan"} THEN -Div100(Pct(30))
  ELSE -Div100(Pct(50))

rate_floor == -Div100(Pct(75))

Max(a, b) == IF a > b THEN a ELSE b

\* calculate_macro_preview: building blocks as decimal fractions
forecast(region, bb) ==
  LET demographic_effect == sigmoid_my_ratio(bb.my_ratio)
      output_per_capita ==
        bb.productivity_growth + demographic_effect + adjustmentOf(region)
      rgdp_growth == output_per_capita + bb.population_growth
      inflation_forecast ==
        (30 * bb.current_headline_inflation + 70 * bb.long_term_inflation)
          \div 100
      long_term_tbill ==
        Max(rate_floor, bb.country_factor + rgdp_growth + inflation_forecast)
      tbill_forecast == (30 * bb.current_tbill + 70 * long_term_tbill) \div 100
  IN [rgdp_growth |-> rgdp_growth, inflation |-> inflation_forecast,
      tbill |-> tbill_forecast]

----------------------------------------------------------------------------
(* hooks/useMacroPreview.ts and the auto-sync effect of MacroRegionInputs,  *)
(* for the region pvRegion                                                  *)

\* hasChanges, against the hardcoded table
hasChanges(macroInputs) ==
  \E key \in BUILDING_BLOCK_KEYS :
    AbsDiffGT(macroInputs[key], DEFAULT_INPUTS.macro[pvRegion][key], 1000)

\* buildingBlocks of fetchPreview
buildingBlocksOf(macroInputs) ==
  [key \in BUILDING_BLOCK_KEYS |->
     IF key = "my_ratio" THEN macroInputs[key] ELSE Div100(macroInputs[key])]

\* the field of the preview response that belongs to a direct forecast
responseField(key) ==
  CASE key = "rgdp_growth" -> "rgdp_growth"
    [] key = "inflation_forecast" -> "inflation"
    [] key = "tbill_forecast" -> "tbill"

\* computedValues of the auto-sync effect
computedValuesOf(result) ==
  [key \in DIRECT_FORECAST_KEYS |-> RoundToPct(result[responseField(key)])]

\* the preview effect, run for a new macroInputs object: the timer it leaves
timerAfterEffect(macroInputs) ==
  IF hasChanges(macroInputs) THEN [inputs |-> macroInputs] ELSE Null

\* the preview effect, run for a new macroInputs object: the computed state
\* it leaves (setComputed(null) without changes)
computedAfterEffect(macroInputs, current) ==
  IF hasChanges(macroInputs) THEN current ELSE Null

\* conflicts of useMacroPreview for one direct forecast
conflicts(key) ==
  IF computed = Null \/ ~hasChanges(macro[pvRegion]) THEN FALSE
  ELSE LET currentVal == Div100(macro[pvRegion][key])
           defaultVal == Div100(DEFAULT_INPUTS.macro[pvRegion][key])
       IN /\ AbsDiffGT(currentVal, defaultVal, 100)
          /\ AbsDiffGT(computed[responseField(key)], currentVal, 100)

\* the macro object of the active default table for pvRegion
activeTableRef == IF fetchedDefaults = NoDefaults THEN "hardcoded" ELSE "fetched"

\* edits of the macro panel (handleChange): a building block or a direct
\* forecast of pvRegion
PreviewEditInputs ==
  {<<"population_growth", D(pvRegion, "population_growth")>>,
   <<"population_growth", D(pvRegion, "population_growth") + Large>>,
   <<"current_headline_inflation", Pct(500)>>,
   <<"rgdp_growth", D(pvRegion, "rgdp_growth")>>,
   <<"rgdp_growth", Pct(300)>>}

PvSetMacroValue ==
  \E in \in PreviewEditInputs :
    /\ IsFinite(in[2])
    /\ setMacroValue(pvRegion, in[1], in[2])
    /\ pvMacroRef' = "fresh"
    /\ pvTimer' = timerAfterEffect(macro'[pvRegion])
    /\ computed' = computedAfterEffect(macro'[pvRegion], computed)
    /\ Op([op |-> "setMacroValue", region |-> pvRegion, key |-> in[1],
           value |-> in[2]])
    /\ UNCHANGED <<pvRegion, pvLoading, pvError, pvInFlight, pvIssued,
                   defaultsFetch, calcVars>>

\* 'Use Computed' of ComputedPreviewTooltip, offered while the building
\* blocks have changes and the forecast is in conflict: onApplyComputed
\* stores the computed value as percentage points
PvApplyComputed ==
  \E key \in DIRECT_FORECAST_KEYS :
    /\ hasChanges(macro[pvRegion])
    /\ conflicts(key)
    /\ setMacroValue(pvRegion, key, Mul100(computed[responseField(key)]))
    /\ pvMacroRef' = "fresh"
    /\ pvTimer' = timerAfterEffect(macro'[pvRegion])
    /\ computed' = computedAfterEffect(macro'[pvRegion], computed)
    /\ Op([op |-> "applyComputed", region |-> pvRegion, key |-> key,
           value |-> Mul100(computed[responseField(key)])])
    /\ UNCHANGED <<pvRegion, pvLoading, pvError, pvInFlight, pvIssued,
                   defaultsFetch, calcVars>>

PvResetToDefaults ==
  /\ resetToDefaults
  /\ pvMacroRef' = activeTableRef
  /\ IF pvMacroRef # activeTableRef
     THEN /\ pvTimer' = timerAfterEffect(macro'[pvRegion])
          /\ computed' = computedAfterEffect(macro'[pvRegion], computed)
     ELSE UNCHANGED <<pvTimer, computed>>
  /\ Op([op |-> "resetToDefaults", before |-> getOverrides])
  /\ UNCHANGED <<pvRegion, pvLoading, pvError, pvInFlight, pvIssued,
                 defaultsFetch, calcVars>>

PvFetchDefaultsResolve ==
  /\ defaultsFetch = "pending"
  /\ \E defaults \in FetchedTables : applyFetchedDefaults(defaults)
  /\ defaultsFetch' = "resolved"
  /\ pvMacroRef' = "fetched"
  /\ pvTimer' = timerAfterEffect(macro'[pvRegion])
  /\ computed' = computedAfterEffect(macro'[pvRegion], computed)
  /\ Op([op |-> "fetchDefaultsResolve"])
  /\ UNCHANGED <<pvRegion, pvLoading, pvError, pvInFlight, pvIssued, calcVars>>

\* the debounce timer fires: fetchPreview issues the request
PvTimerFires ==
  /\ pvTimer # Null
  /\ pvIssued < MaxPreviewRequests
  /\ pvIssued' = pvIssued + 1
  /\ pvInFlight' = pvInFlight \cup
       {[id |-> pvIssued + 1,
         buildingBlocks |-> buildingBlocksOf(pvTimer.inputs)]}
  /\ pvLoading' = TRUE
  /\ pvTimer' = Null
  /\ lastOp' = [op |-> "previewRequest", id |-> pvIssued + 1]
  /\ UNCHANGED <<storeVars, defaultsFetch, nOps, panelVars, pvRegion, computed, pvError,
                 pvMacroRef, calcVars>>

\* a preview response arrives: setComputed(result), then the auto-sync
\* effect, then (when the sync changed the store) the preview effect
PvResponse ==
  \E req \in pvInFlight :
    LET result == [id |-> req.id] @@ forecast(pvRegion, req.buildingBlocks)
        computedValues == computedValuesOf(result)
        changed == syncedRegionMacro(pvRegion, computedValues) # macro[pvRegion]
    IN /\ syncMacroComputed(pvRegion, computedValues)
       /\ pvInFlight' = pvInFlight \ {req}
       /\ pvError' = Null
       /\ pvLoading' = FALSE
       /\ IF changed
          THEN /\ pvMacroRef' = "fresh"
               /\ pvTimer' = timerAfterEffect(macro'[pvRegion])
               /\ computed' = computedAfterEffect(macro'[pvRegion], result)
          ELSE /\ computed' = result
               /\ UNCHANGED <<pvTimer, pvMacroRef>>
       /\ lastOp' = [op |-> "previewResponse", id |-> req.id]
       /\ UNCHANGED <<defaultsFetch, nOps, panelVars, pvRegion, pvIssued, calcVars>>

\* a preview request fails: setError
PvFailure ==
  \E req \in pvInFlight :
    /\ pvInFlight' = pvInFlight \ {req}
    /\ pvError' = [message |-> "Preview calculation failed"]
    /\ pvLoading' = FALSE
    /\ lastOp' = [op |-> "previewFailure", id |-> req.id]
    /\ UNCHANGED <<storeVars, defaultsFetch, nOps, panelVars, pvRegion, computed, pvTimer,
                   pvIssued, pvMacroRef, calcVars>>

NextPreview ==
  \/ PvSetMacroValue
  \/ PvApplyComputed
  \/ PvResetToDefaults
  \/ PvFetchDefaultsResolve
  \/ PvTimerFires
  \/ PvResponse
  \/ PvFailure

SpecPreview == Init /\ [][NextPreview]_vars

\* C2: a response of a macro-preview request that is no longer the most
\* recently issued one is discarded: it changes neither the preview state nor
\* the store.
C2_StaleResponseDiscarded ==
  [][(lastOp'.op = "previewResponse" /\ lastOp'.id < pvIssued)
     => (computed' = computed /\ macro' = macro)]_vars

\* nothing of the preview is pending: no timer, no request in flight
PreviewQuiescent == pvTimer = Null /\ pvInFlight = {}

\* the value the macro model gives a direct forecast for the stored building
\* blocks, as the panel shows it
currentlyComputed(key) ==
  RoundToPct(forecast(pvRegion, buildingBlocksOf(macro[pvRegion]))[responseField(key)])

\* C6: a direct forecast that is not dirty holds the active default or the
\* value currently computed from the building blocks (stated for the states
\* in which no preview is pending, so that a request still on its way is not
\* counted against the store).
C6_ThreeStates ==
  PreviewQuiescent =>
    \A key \in DIRECT_FORECAST_KEYS :
      ~isMacroDirty(pvRegion, key) =>
        \/ macro[pvRegion][key] = getActiveDefaults.macro[pvRegion][key]
        \/ ~AbsDiffGT(macro[pvRegion][key], currentlyComputed(key), 1000)

\* C8: the conflict flag of a direct forecast is set if and only if the
\* field is dirty and the computed value of the preview differs from the
\* stored value by more than the tolerance.
C8_ConflictIffDirtyAndDiffers ==
  \A key \in DIRECT_FORECAST_KEYS :
    conflicts(key) <=>
      /\ isMacroDirty(pvRegion, key)
      /\ computed # Null
      /\ AbsDiffGT(Mul100(computed[responseField(key)]), macro[pvRegion][key], 1000)

\* C17: setMacroValue on a direct forecast, called by an edit of the panel or
\* by 'Use Computed', stores the value it is given and leaves the (region,
\* field) dirty, whatever the value and whatever the flag was.
C17_SetDirectStoresAndMarks ==
  [][(/\ lastOp'.op \in {"setMacroValue", "applyComputed"}
      /\ lastOp'.key \in DIRECT_FORECAST_KEYS)
     => /\ macro'[lastOp'.region][lastOp'.key] = lastOp'.value
        /\ <<lastOp'.region, lastOp'.key>> \in dirtyMacroFields']_vars

\* 'Use Computed' has stored the computed value of the preview in a direct
\* forecast
C17_Witness ==
  /\ lastOp.op = "applyComputed"
  /\ computed # Null
  /\ macro[pvRegion][lastOp.key] = Mul100(computed[responseField(lastOp.key)])
  /\ isMacroDirty(pvRegion, lastOp.key)

----------------------------------------------------------------------------
(* hooks/useCalculation.ts and the debounced effect of Dashboard            *)

\* a change of the inputs begins a burst unless a burst's timer is pending
burstAfterChange ==
  IF calcBurst = Null \/ calcTimer = Null THEN [issued |-> 0] ELSE calcBurst

\* a pass is issued in the burst
burstAfterIssue(burst) ==
  IF burst = Null THEN Null ELSE [issued |-> burst.issued + 1]

\* failPass dropping the displayed results
failPass_clearingResults(pass) ==
  /\ calcError' = [message |-> "Calculation failed"]
  /\ calcLoading' = FALSE
  /\ passes' = passes \ {pass}
  /\ results' = Null
  /\ baseResults' = Null

\* the catch block of calculate
failPass(pass) ==
  /\ calcError' = [message |-> "Calculation failed"]
  /\ calcLoading' = FALSE
  /\ passes' = passes \ {pass}
  /\ UNCHANGED <<results, baseResults>>

\* completePass keeping scenario results that a later pass has set
completePass_keepingNewerResults(pass) ==
  /\ results' = IF results # Null /\ results.pass > pass.id
                THEN results
                ELSE [pass |-> pass.id, overrides |-> pass.overrides,
                      base_currency |-> pass.baseCurrency]
  /\ baseResults' = [pass |-> pass.id, base_currency |-> pass.baseCurrency]
  /\ calcLoading' = FALSE
  /\ passes' = passes \ {pass}
  /\ UNCHANGED calcError

\* both requests of a pass have resolved
completePass(pass) ==
  /\ results' = [pass |-> pass.id, overrides |-> pass.overrides,
                 base_currency |-> pass.baseCurrency]
  /\ baseResults' = [pass |-> pass.id, base_currency |-> pass.baseCurrency]
  /\ calcLoading' = FALSE
  /\ passes' = passes \ {pass}
  /\ UNCHANGED calcError

\* an input of the store changes (here: a bond input); the debounce effect of
\* Dashboard clears its timer and sets a new one
CalcSetBondValue ==
  \E in \in SetBondInputs :
    /\ setBondValue(in[1], in[2], in[3])
    /\ calcTimer' = [baseCurrency |-> baseCurrency]
    /\ calcBurst' = burstAfterChange
    /\ Op([op |-> "setBondValue", type |-> in[1], key |-> in[2],
           value |-> in[3]])
    /\ UNCHANGED <<defaultsFetch, previewVars, results, baseResults,
                   calcLoading, calcError, passes, calcIssued>>

\* the base currency changes: the effect of useCalculation calls calculate()
\* at once, and the debounce effect of Dashboard sets a new timer
CalcSetBaseCurrency ==
  \E currency \in BaseCurrencies \ {baseCurrency} :
    /\ calcIssued < MaxPasses
    /\ setBaseCurrency(currency)
    /\ calcLoading' = TRUE
    /\ calcError' = Null
    /\ passes' = passes \cup {NewPass(calcIssued + 1, getOverrides, currency)}
    /\ calcIssued' = calcIssued + 1
    /\ calcTimer' = [baseCurrency |-> currency]
    /\ calcBurst' = burstAfterIssue(burstAfterChange)
    /\ Op([op |-> "setBaseCurrency", currency |-> currency])
    /\ UNCHANGED <<defaultsFetch, previewVars, results, baseResults>>

\* the debounce timer fires: calculate()
CalcTimerFires ==
  /\ calcTimer # Null
  /\ calcIssued < MaxPasses
  /\ calcLoading' = TRUE
  /\ calcError' = Null
  /\ passes' = passes \cup
       {NewPass(calcIssued + 1, getOverrides, calcTimer.baseCurrency)}
  /\ calcIssued' = calcIssued + 1
  /\ calcTimer' = Null
  /\ calcBurst' = burstAfterIssue(calcBurst)
  /\ lastOp' = [op |-> "calcRequest", id |-> calcIssued + 1]
  /\ UNCHANGED <<storeVars, defaultsFetch, nOps, panelVars, previewVars, results,
                 baseResults>>

\* one of the two requests of a pass resolves; with the second one
\* Promise.all resolves and the results are applied
CalcRequestResolves ==
  \E pass \in passes, which \in {"current", "baseline"} :
    /\ pass[which] = "pending"
    /\ LET other == IF which = "current" THEN "baseline" ELSE "current"
       IN IF pass[other] = "ok"
          THEN /\ completePass(pass)
               /\ lastOp' = [op |-> "calcSuccess", id |-> pass.id]
          ELSE /\ passes' = (passes \ {pass}) \cup {[pass EXCEPT ![which] = "ok"]}
               /\ lastOp' = [op |-> "calcPartial", id |-> pass.id]
               /\ UNCHANGED <<results, baseResults, calcLoading, calcError>>
    /\ UNCHANGED <<storeVars, defaultsFetch, nOps, panelVars, previewVars, calcTimer,
                   calcIssued, calcBurst>>

\* one of the two requests of a pass rejects: Promise.all rejects
CalcRequestRejects ==
  \E pass \in passes, which \in {"current", "baseline"} :
    /\ pass[which] = "pending"
    /\ failPass(pass)
    /\ lastOp' = [op |-> "calcFailure", id |-> pass.id]
    /\ UNCHANGED <<storeVars, defaultsFetch, nOps, panelVars, previewVars, calcTimer,
                   calcIssued, calcBurst>>

\* getDefaults() rejects while Dashboard is mounted: no input of the store
\* changes, so no effect of Dashboard or useCalculation runs again
CalcFetchDefaultsReject ==
  /\ defaultsFetch = "pending"
  /\ defaultsFetch' = "rejected"
  /\ rejectFetchedDefaults
  /\ Op([op |-> "fetchDefaultsReject"])
  /\ UNCHANGED <<previewVars, calcVars>>

NextCalc ==
  \/ CalcFetchDefaultsReject
  \/ CalcSetBondValue
  \/ CalcSetBaseCurrency
  \/ CalcTimerFires
  \/ CalcRequestResolves
  \/ CalcRequestRejects

SpecCalc == Init /\ [][NextCalc]_vars

\* C9: when a compute pass fails, the displayed scenario results and baseline
\* results stay as they were and the error state is not null.
C9_FailureKeepsResults ==
  [][lastOp'.op = "calcFailure"
     => (results' = results /\ baseResults' = baseResults /\ calcError' # Null)]_vars

\* a pass has failed while the results of an earlier pass were displayed
C9_Witness ==
  /\ lastOp.op = "calcFailure"
  /\ results # Null
  /\ baseResults # Null
  /\ results.pass < lastOp.id
  /\ calcError # Null

\* C10: a burst of input changes (each arriving before the timer of the one
\* before has fired) issues exactly one compute pass: never more than one,
\* and one once its timer has fired.
C10_OneRequestPerBurst ==
  calcBurst # Null =>
    /\ calcBurst.issued <= 1
    /\ calcTimer = Null => calcBurst.issued = 1

----------------------------------------------------------------------------
(* components/inputs/EquityInputPanel.tsx: EquityRegionInputsGK, the values *)
(* the Grinold-Kroner panel derives from the store on every render          *)

\* a > 0 : false for NaN
GT0(a) == IF IsNaN(a) THEN FALSE ELSE IF IsInf(a) THEN a = PosInf ELSE a > 0

\* a <= 0 : false for NaN
LE0(a) == IF IsNaN(a) THEN FALSE ELSE IF IsInf(a) THEN a = NegInf ELSE a <= 0

\* a + b
Add(a, b) ==
  IF IsNaN(a) \/ IsNaN(b) THEN NaN
  ELSE IF IsInf(a) /\ IsInf(b) THEN (IF a = b THEN a ELSE NaN)
  ELSE IF IsInf(a) THEN a
  ELSE IF IsInf(b) THEN b
  ELSE a + b

\* Ratios and their powers carry four decimals: 1.0 is RatioOne
RatioOne == 10000

\* target / current for two positive numbers of at least 0.01, as a ratio
Quotient(target, current) ==
  IF IsInf(target) /\ IsInf(current) THEN NaN
  ELSE IF IsInf(target) THEN PosInf
  ELSE IF IsInf(current) THEN 0
  ELSE ((target \div RatioOne) * RatioOne) \div (current \div RatioOne)

RECURSIVE PowN(_, _)
\* r ** n for a ratio r
PowN(r, n) == IF n = 1 THEN r ELSE (PowN(r, n - 1) * r) \div RatioOne

RECURSIVE RootBetween(_, _, _)
\* the largest ratio r in lo .. hi - 1 with r ** 10 <= q, by bisection
RootBetween(lo, hi, q) ==
  IF hi - lo <= 1 THEN lo
  ELSE LET mid == (lo + hi) \div 2
       IN IF PowN(mid, 10) <= q THEN RootBetween(mid, hi, q)
          ELSE RootBetween(lo, mid, q)

\* q ** (1 / 10) for a ratio q below 1.2 ** 10
TenthRoot(q) ==
  IF ~IsFinite(q) THEN q
  ELSE IF q = 0 THEN 0
  ELSE RootBetween(0, 12000, q)

macroRegionMap(region) ==
  CASE region = "us" -> "us"
    [] region = "europe" -> "eurozone"
    [] region = "japan" -> "japan"
    [] region = "em" -> "em"

computedRevGrowth(region) ==
  LET macroData == macro[macroRegionMap(region)]
  IN Add(Add(macroData.inflation_forecast, macroData.rgdp_growth),
         equityGK[region].revenue_gdp_wedge)

valuationChange(region) ==
  LET inputs == equityGK[region]
  IN IF GT0(inputs.current_pe) /\ GT0(inputs.target_pe)
     THEN LET root == TenthRoot(Quotient(inputs.target_pe, inputs.current_pe))
          IN IF IsFinite(root) THEN (root - RatioOne) * 10000 ELSE root
     ELSE 0

totalReturn(region) ==
  LET inputs == equityGK[region]
  IN Add(Add(Add(Add(inputs.dividend_yield, inputs.net_buyback_yield),
                 inputs.revenue_growth),
             inputs.margin_change),
         valuationChange(region))

\* edits of the Grinold-Kroner panel and calls of the setter: P/E ratios at
\* zero, below zero, above and below each other and non-finite, a revenue
\* growth away from its default, a wedge
GKEditInputs ==
  {<<"us", "current_pe", 0>>, <<"us", "current_pe", -Pct(500)>>,
   <<"us", "current_pe", Pct(2500)>>, <<"us", "current_pe", PosInf>>,
   <<"us", "current_pe", NaN>>,
   <<"us", "target_pe", 0>>, <<"us", "target_pe", Pct(2500)>>,
   <<"us", "target_pe", PosInf>>,
   <<"us", "revenue_growth", Pct(650)>>,
   <<"europe", "revenue_gdp_wedge", Pct(100)>>,
   <<"europe", "revenue_growth", Pct(307)>>}

\* edits of the direct forecasts the revenue growth is computed from
GKMacroInputs ==
  {<<"us", "inflation_forecast", Pct(329)>>,
   <<"eurozone", "rgdp_growth", Pct(151)>>}

GkSetEquityGKValue ==
  \E in \in GKEditInputs :
    /\ setEquityGKValue(in[1], in[2], in[3])
    /\ Op([op |-> "setEquityGKValue", region |-> in[1], key |-> in[2],
           value |-> in[3]])
    /\ UNCHANGED defaultsFetch /\ hooksUnchanged

GkSetMacroValue ==
  \E in \in GKMacroInputs :
    /\ setMacroValue(in[1], in[2], in[3])
    /\ Op([op |-> "setMacroValue", region |-> in[1], key |-> in[2],
           value |-> in[3]])
    /\ UNCHANGED defaultsFetch /\ hooksUnchanged

NextGK ==
  \/ GkSetEquityGKValue
  \/ GkSetMacroValue

SpecGK == Init /\ [][NextGK]_vars

\* the user has overridden the revenue growth of a region: getOverrides
\* sends it
revenueGrowthOverridden(region) ==
  isDifferent(equityGK[region].revenue_growth,
              DEFAULT_INPUTS_GK_EQUITY[region].revenue_growth)

\* the total return without its revenue-growth term
returnWithout(region, term) ==
  LET inputs == equityGK[region]
  IN Add(Add(Add(Add(inputs.dividend_yield, inputs.net_buyback_yield), term),
             inputs.margin_change),
         valuationChange(region))

\* C19: the revenue growth that enters the Grinold-Kroner nominal return of
\* a region is inflation_forecast + rgdp_growth of the mapped macro region
\* plus the revenue_gdp_wedge, unless the revenue growth was overridden, and
\* then it is the stored override.
C19_RevenueGrowthFromMacro ==
  \A region \in EquityRegions :
    totalReturn(region) =
      returnWithout(region,
                    IF revenueGrowthOverridden(region)
                    THEN equityGK[region].revenue_growth
                    ELSE computedRevGrowth(region))

\* C20: the valuation change is 0 whenever current_pe <= 0 or target_pe <= 0,
\* and for every stored pair of P/E ratios the valuation change is a finite
\* number, and so is the total return when the other terms are.
C20_ValuationGuarded ==
  \A region \in EquityRegions :
    LET inputs == equityGK[region]
    IN /\ (LE0(inputs.current_pe) \/ LE0(inputs.target_pe)) =>
            valuationChange(region) = 0
       /\ IsFinite(valuationChange(region))
       /\ (/\ IsFinite(inputs.dividend_yield)
           /\ IsFinite(inputs.net_buyback_yield)
           /\ IsFinite(inputs.revenue_growth)
           /\ IsFinite(inputs.margin_change)) => IsFinite(totalReturn(region))

----------------------------------------------------------------------------
(* Frame of syncMacroComputed                                               *)

\* C24: syncMacroComputed(region, computedValues) modifies nothing except
\* non-dirty direct-forecast fields of the named region.  For every
\* computedValues argument the building-block fields of every region, the
\* macro values of the other regions, all asset inputs and the dirty set are
\* unchanged, and a dirty direct-forecast field keeps its value.
C24_SyncFrame ==
  [][lastOp'.op = "syncMacroComputed" =>
       /\ \A region \in MacroRegions : \A key \in DOMAIN macro[region] :
            macro'[region][key] # macro[region][key] =>
              /\ region = lastOp'.region
              /\ key \in DIRECT_FORECAST_KEYS
              /\ ~isMacroDirty(region, key)
       /\ UNCHANGED <<bonds, equity, equityGK, absoluteReturn, baseCurrency,
                      equityModelType, fetchedDefaults, dirtyMacroFields>>]_vars

----------------------------------------------------------------------------
(* Edits made while the default table is being fetched                      *)

\* C26: an explicit user edit (a setter call, including one that marks a
\* direct-forecast field dirty) made before the default-table fetch completes
\* is not discarded when the fetch completes: the field the setter wrote still
\* holds the value written, and a dirty mark it set is still set.
C26_EditSurvivesFetch ==
  [][lastOp'.op = "fetchDefaultsResolve" =>
       /\ lastOp.op = "setMacroValue" =>
            /\ macro'[lastOp.region][lastOp.key] = lastOp.value
            /\ lastOp.key \in DIRECT_FORECAST_KEYS =>
                 <<lastOp.region, lastOp.key>> \in dirtyMacroFields'
       /\ lastOp.op = "setBondValue" =>
            bonds'[lastOp.type][lastOp.key] = lastOp.value
       /\ lastOp.op = "setEquityValue" =>
            equity'[lastOp.region][lastOp.key] = lastOp.value
       /\ lastOp.op = "setEquityGKValue" =>
            equityGK'[lastOp.region][lastOp.key] = lastOp.value
       /\ lastOp.op = "setAbsoluteReturnValue" =>
            absoluteReturn'[lastOp.key] = lastOp.value
       /\ lastOp.op = "setBaseCurrency" => baseCurrency' = lastOp.currency
       /\ lastOp.op = "setEquityModelType" =>
            equityModelType' = lastOp.type]_vars

----------------------------------------------------------------------------
(* Overlapping compute passes                                               *)

\* C23: a response to an earlier compute pass never overwrites the response
\* to a later one; once the inputs have stopped changing and every issued pass
\* has completed, the displayed results are those computed from the final
\* inputs and base currency, unless the last pass issued has failed.
C23_LatestPassWins ==
  /\ [][(lastOp'.op = "calcSuccess" /\ results # Null)
          => results'.pass >= results.pass]_vars
  /\ []((passes = {} /\ calcTimer = Null /\ results # Null
          /\ calcError = Null) =>
          /\ results.overrides = getOverrides
          /\ results.base_currency = baseCurrency)

\* C29: the loading flag of the full computation is true whenever at least
\* one compute pass is in flight and false whenever none is.
C29_LoadingIffInFlight == calcLoading <=> passes # {}

\* C30: whenever scenario results and baseline results are both displayed,
\* they come from the same compute pass, issued with the same base currency.
C30_SamePass ==
  (results # Null /\ baseResults # Null) =>
    /\ results.pass = baseResults.pass
    /\ results.base_currency = baseResults.base_currency

\* a pass has been applied over the results of another one while a third pass
\* was still awaited
C30_Witness ==
  /\ lastOp.op = "calcSuccess"
  /\ results # Null /\ baseResults # Null
  /\ results.pass = lastOp.id
  /\ results.pass < calcIssued
  /\ passes # {}
  /\ calcError # Null

----------------------------------------------------------------------------
(* components/results/FxExplanation.tsx: the currency-adjustment card of   *)
(* Dashboard                                                                *)

ASSET_NAMES ==
  [liquidity |-> "Liquidity", bonds_global |-> "Bonds Global",
   bonds_hy |-> "Bonds HY", bonds_em |-> "Bonds EM",
   equity_us |-> "Equity US", equity_europe |-> "Equity Europe",
   equity_japan |-> "Equity Japan", equity_em |-> "Equity EM",
   absolute_return |-> "Absolute Return"]

\* which assets each FX pair is shown to affect
FX_AFFECTED_ASSETS ==
  [usd |-> {"Liquidity", "Bonds Global", "Bonds HY", "Bonds EM", "Equity US",
            "Absolute Return"},
   jpy |-> {"Equity Japan"},
   em |-> {"Equity EM"}]

\* the names of the assets whose result carries an fx_return component that
\* is truthy and larger than 0.0001 in absolute value
assetsWithFx(response) ==
  {ASSET_NAMES[key] :
     key \in {k \in DOMAIN response.results :
                /\ "fx_return" \in DOMAIN response.results[k].components
                /\ LET fxComponent == response.results[k].components.fx_return
                   IN /\ fxComponent # 0
                      /\ ~IsNaN(fxComponent)
                      /\ AbsDiffGT(fxComponent, 0, 100)}}

\* what FxExplanation returns: nothing without FX forecasts, else one row per
\* FX pair with its affected assets, and the per-asset summary
FxExplanation(response) ==
  IF response.fx_forecasts = <<>> THEN Null
  ELSE [rows |->
          [ccy \in DOMAIN response.fx_forecasts |->
             IF ccy \in DOMAIN FX_AFFECTED_ASSETS
             THEN FX_AFFECTED_ASSETS[ccy]
             ELSE {}],
        summary |-> assetsWithFx(response)]

\* Dashboard mounts the card for results under the EUR base currency
fxCard(response, currency) ==
  IF response # Null /\ currency = "eur" /\ response.fx_forecasts # Null
  THEN FxExplanation(response)
  ELSE Null

\* responses of /api/calculate/full explored: FX forecasts for any set of
\* pairs; an fx_return component that is absent, zero, below the display
\* threshold or above it on three equity classes, and absent on the others
FxResponses ==
  LET components ==
        {<<>>, [fx_return |-> 0], [fx_return |-> Div100(Pct(1)) \div 2],
         [fx_return |-> Pct(1)]}
  IN {[fx_forecasts |-> [ccy \in pairs |-> [fx_change |-> Pct(1)]],
       results |->
         [asset \in DOMAIN ASSET_NAMES |->
            [components |->
               CASE asset = "equity_us" -> us
                 [] asset = "equity_japan" -> jp
                 [] asset = "equity_em" -> em
                 [] OTHER -> <<>>]]] :
        pairs \in SUBSET {"usd", "jpy", "em"}, us \in components,
        jp \in components, em \in components}

\* a compute pass delivers results and Dashboard renders them
FxResultsArrive ==
  \E response \in FxResponses :
    /\ fxResults' = response
    /\ fxRendered' = fxCard(response, baseCurrency)
    /\ lastOp' = [op |-> "fxResults"]
    /\ UNCHANGED <<storeVars, defaultsFetch, nOps, previewVars, calcVars,
                   user, react_scenarios, localStorage, savedScenarios, clock,
                   saveLog>>

\* the base currency is switched and Dashboard renders again
FxSetBaseCurrency ==
  \E currency \in BaseCurrencies \ {baseCurrency} :
    /\ setBaseCurrency(currency)
    /\ fxRendered' = fxCard(fxResults, currency)
    /\ lastOp' = [op |-> "setBaseCurrency", currency |-> currency]
    /\ UNCHANGED <<fxResults, defaultsFetch, nOps, previewVars, calcVars,
                   user, react_scenarios, localStorage, savedScenarios, clock,
                   saveLog>>

NextFx ==
  \/ FxResultsArrive
  \/ FxSetBaseCurrency

SpecFx == Init /\ [][NextFx]_vars

\* C21: the currency mapping never attaches an FX term to liquidity or to
\* the absolute-return asset class, for any selected base currency.
C21_NoFxOnLiquidityOrAlternatives ==
  LET attached ==
        IF fxRendered = Null THEN {}
        ELSE UNION {fxRendered.rows[ccy] : ccy \in DOMAIN fxRendered.rows}
             \cup fxRendered.summary
  IN "Liquidity" \notin attached /\ "Absolute Return" \notin attached

----------------------------------------------------------------------------
(* lib/scenarios.ts: scenarios in the react_scenarios table of Supabase or  *)
(* under one key of localStorage                                            *)

\* user?.id || null : no user id.  The tests `userId && supabase` treat null
\* and the empty string alike; a user is signed in through the client only
\* (signIn returns early without it), so the client exists whenever userId
\* is set
NoUserId == ""

\* the outcomes of one call to Supabase: { data, error: null }, or an error
\* (returned or thrown)
SupabaseOutcomes == {"ok", "error"}

getLocalScenarios ==
  {Merge(localStorage[id], [is_local |-> TRUE]) : id \in DOMAIN localStorage}

getScenarios(userId, outcome) ==
  IF userId # NoUserId
  THEN IF outcome = "error"
       THEN getLocalScenarios
       ELSE {Merge(row, [is_local |-> FALSE]) :
               row \in {r \in react_scenarios : r.user_id = userId}}
  ELSE getLocalScenarios

\* JSON has no NaN and no Infinity: JSON.stringify writes them as null
JsonNull == NonFinite(4)

\* an Overrides object written as JSON and parsed again
jsonOverrides(overrides) ==
  LET jsonSection(section) ==
        [k \in DOMAIN section |->
           IF IsFinite(section[k]) THEN section[k] ELSE JsonNull]
  IN [k \in DOMAIN overrides |->
        IF k = "macro"
        THEN [region \in DOMAIN overrides.macro |->
                jsonSection(overrides.macro[region])]
        ELSE jsonSection(overrides[k])]

\* the row the insert returns: the database supplies the id
insertedRow(userId, scenario) ==
  [id |-> "cloud-" \o ToString(clock + 1), user_id |-> userId,
   name |-> scenario.name, overrides |-> jsonOverrides(scenario.overrides),
   base_currency |-> scenario.base_currency]

\* newScenario of saveLocalScenario: the id is local-<Date.now()>
newLocalScenario(scenario) ==
  [id |-> "local-" \o ToString(clock + 1), name |-> scenario.name,
   overrides |-> scenario.overrides,
   base_currency |-> scenario.base_currency, is_local |-> TRUE]

\* what saveScenario returns
savedScenarioOf(userId, scenario, outcome) ==
  IF userId # NoUserId /\ outcome = "ok"
  THEN Merge(insertedRow(userId, scenario), [is_local |-> FALSE])
  ELSE newLocalScenario(scenario)

\* saveScenario, with saveLocalScenario as its fallback
saveScenario(userId, scenario, outcome) ==
  /\ clock' = clock + 1
  /\ IF userId # NoUserId /\ outcome = "ok"
     THEN /\ react_scenarios' =
               react_scenarios \cup {insertedRow(userId, scenario)}
          /\ UNCHANGED localStorage
     ELSE /\ localStorage' =
               Merge(localStorage,
                     [id \in {newLocalScenario(scenario).id} |->
                        [newLocalScenario(scenario) EXCEPT
                           !.overrides = jsonOverrides(@)]])
          /\ UNCHANGED react_scenarios

\* what deleteScenario returns: for a signed-in user, whether the delete
\* statement reported no error; else what deleteLocalScenario returns
deleteSucceeds(userId, id, outcome) ==
  IF userId # NoUserId THEN outcome = "ok" ELSE id \in DOMAIN localStorage

\* deleteScenario, with deleteLocalScenario when nobody is signed in
deleteScenario(userId, id, outcome) ==
  IF userId # NoUserId
  THEN /\ react_scenarios' =
            IF outcome = "ok"
            THEN {r \in react_scenarios : ~(r.id = id /\ r.user_id = userId)}
            ELSE react_scenarios
       /\ UNCHANGED localStorage
  ELSE /\ localStorage' =
            [k \in DOMAIN localStorage \ {id} |-> localStorage[k]]
       /\ UNCHANGED react_scenarios

----------------------------------------------------------------------------
(* components/scenarios/ScenarioManager.tsx                                 *)

convertNumberForUi(key, value, rawKeys) ==
  IF key \in rawKeys THEN value ELSE Mul100(value)

\* a section the conversion leaves undefined is absent here; the payloads of
\* getOverrides have no inflation_linked section.  Entries that are not
\* numbers (null in the stored JSON) are skipped
convertSavedOverridesToUiUnits(overrides) ==
  LET numberKeys(group) == {k \in DOMAIN group : group[k] # JsonNull}
      convertBondGroup(group) ==
        [key \in numberKeys(group) |->
           convertNumberForUi(key, group[key], {"duration"})]
      convertEquityGroup(group) ==
        LET isGk ==
              \E k \in DOMAIN group : k = "current_pe" \/ k = "target_pe"
        IN [key \in numberKeys(group) |->
              IF isGk
              THEN convertNumberForUi(key, group[key],
                                      {"current_pe", "target_pe"})
              ELSE Mul100(group[key])]
      convertAbsoluteReturn(group) ==
        [key \in numberKeys(group) |->
           IF key = "trading_alpha" THEN Mul100(group[key]) ELSE group[key]]
      convertMacro(group) ==
        [region \in DOMAIN group |->
           [key \in numberKeys(group[region]) |->
              convertNumberForUi(key, group[region][key], {"my_ratio"})]]
  IN [k \in DOMAIN overrides |->
        CASE k = "macro" -> convertMacro(overrides.macro)
          [] k \in {"bonds_global", "bonds_hy", "bonds_em"} ->
               convertBondGroup(overrides[k])
          [] k \in {"equity_us", "equity_europe", "equity_japan",
                    "equity_em"} ->
               convertEquityGroup(overrides[k])
          [] k = "absolute_return" -> convertAbsoluteReturn(overrides[k])]

\* setBaseCurrency for usd or eur, then resetToDefaults() followed by
\* loadScenario(overridesForUi): the payload merged onto the active default
\* table
handleLoadSavedScenario(scenario) ==
  LET defaults == getActiveDefaults
      overrides == convertSavedOverridesToUiUnits(scenario.overrides)
  IN /\ baseCurrency' =
          IF scenario.base_currency \in {"usd", "eur"}
          THEN scenario.base_currency
          ELSE baseCurrency
     /\ macro' =
          [region \in MacroRegions |->
             IF Has(overrides, "macro") /\ region \in DOMAIN overrides.macro
             THEN Merge(defaults.macro[region], overrides.macro[region])
             ELSE defaults.macro[region]]
     /\ bonds' =
          [type \in DOMAIN defaults.bonds |->
             IF type \in BondTypes /\ Has(overrides, "bonds_" \o type)
             THEN Merge(defaults.bonds[type], overrides["bonds_" \o type])
             ELSE defaults.bonds[type]]
     /\ equity' =
          [region \in EquityRegions |->
             IF Has(overrides, "equity_" \o region)
             THEN Merge(defaults.equity[region],
                        overrides["equity_" \o region])
             ELSE defaults.equity[region]]
     /\ equityGK' = DEFAULT_INPUTS_GK_EQUITY
     /\ absoluteReturn' =
          IF Has(overrides, "absolute_return")
          THEN Merge(defaults.absolute_return, overrides.absolute_return)
          ELSE defaults.absolute_return
     /\ dirtyMacroFields' =
          IF Has(overrides, "macro")
          THEN {<<region, key>> \in MacroRegions \X DIRECT_FORECAST_KEYS :
                  /\ region \in DOMAIN overrides.macro
                  /\ key \in DOMAIN overrides.macro[region]}
          ELSE {}
     /\ UNCHANGED <<equityModelType, fetchedDefaults>>

\* user?.id || null
currentUserId == IF user = Null THEN NoUserId ELSE user.id

\* signIn succeeds; the effect of ScenarioManager on user?.id loads the list
SignIn ==
  \E id \in {"u1"}, outcome \in SupabaseOutcomes :
    /\ user = Null
    /\ user' = [id |-> id]
    /\ savedScenarios' = getScenarios(id, outcome)
    /\ lastOp' = [op |-> "signIn", userId |-> id,
                  listed |-> {s.id : s \in savedScenarios'}]
    /\ UNCHANGED <<storeVars, defaultsFetch, nOps, previewVars, calcVars,
                   fxResults, fxRendered, react_scenarios, localStorage,
                   clock, saveLog>>

\* signOut; the effect of ScenarioManager on user?.id loads the list
SignOut ==
  /\ user # Null
  /\ user' = Null
  /\ savedScenarios' = getScenarios(NoUserId, "ok")
  /\ lastOp' = [op |-> "signOut", userId |-> NoUserId,
                listed |-> {s.id : s \in savedScenarios'}]
  /\ UNCHANGED <<storeVars, defaultsFetch, nOps, previewVars, calcVars,
                 fxResults, fxRendered, react_scenarios, localStorage, clock,
                 saveLog>>

\* ScenarioManager mounts: loadSavedScenarios
LoadSavedScenarios ==
  \E outcome \in SupabaseOutcomes :
    /\ savedScenarios' = getScenarios(currentUserId, outcome)
    /\ nOps < MaxOps
    /\ nOps' = nOps + 1
    /\ lastOp' = [op |-> "loadSavedScenarios", userId |-> currentUserId,
             listed |-> {s.id : s \in savedScenarios'}]
    /\ UNCHANGED <<storeVars, defaultsFetch, previewVars, calcVars,
                   fxResults, fxRendered, user, react_scenarios,
                   localStorage, clock, saveLog>>

\* handleSaveScenario with a name: saveScenario, then refreshSavedScenarios.
\* With an empty name the handler returns at once.  saveLog records the
\* input sets as they are when the scenario is saved
HandleSaveScenario ==
  \E insert \in SupabaseOutcomes, select \in SupabaseOutcomes :
    LET scenario == [name |-> "Plan", overrides |-> getOverrides,
                     base_currency |-> baseCurrency]
        saved == savedScenarioOf(currentUserId, scenario, insert)
    IN /\ saveScenario(currentUserId, scenario, insert)
       /\ UNCHANGED user
       /\ savedScenarios' = getScenarios(currentUserId, select)'
       /\ saveLog' =
            Merge(saveLog,
                  [id \in {saved.id} |->
                     [userId |-> currentUserId, macro |-> macro,
                      bonds |-> bonds, equity |-> equity,
                      equityGK |-> equityGK,
                      absoluteReturn |-> absoluteReturn,
                      equityModelType |-> equityModelType,
                      deletedBy |-> {}]])
       /\ nOps < MaxOps
       /\ nOps' = nOps + 1
       /\ lastOp' = [op |-> "handleSaveScenario", userId |-> currentUserId,
                id |-> saved.id, is_local |-> saved.is_local,
                overrides |-> scenario.overrides,
                listed |-> {s.id : s \in savedScenarios'}]
       /\ UNCHANGED <<storeVars, defaultsFetch, previewVars, calcVars,
                      fxResults, fxRendered>>

\* handleDeleteScenario on a scenario of the list
HandleDeleteScenario ==
  \E scenario \in savedScenarios, outcome \in SupabaseOutcomes :
    LET success == deleteSucceeds(currentUserId, scenario.id, outcome)
    IN /\ deleteScenario(currentUserId, scenario.id, outcome)
       /\ savedScenarios' =
            IF success
            THEN {s \in savedScenarios : s.id # scenario.id}
            ELSE savedScenarios
       /\ saveLog' =
            IF success
            THEN [saveLog EXCEPT ![scenario.id].deletedBy =
                                   @ \cup {currentUserId}]
            ELSE saveLog
       /\ nOps < MaxOps
       /\ nOps' = nOps + 1
       /\ lastOp' = [op |-> "handleDeleteScenario", userId |-> currentUserId,
                id |-> scenario.id, success |-> success]
       /\ UNCHANGED <<storeVars, defaultsFetch, previewVars, calcVars,
                      fxResults, fxRendered, user, clock>>

\* handleLoadSavedScenario on a scenario of the list
HandleLoadSavedScenario ==
  \E scenario \in savedScenarios :
    /\ handleLoadSavedScenario(scenario)
    /\ nOps < MaxOps
    /\ nOps' = nOps + 1
    /\ lastOp' = [op |-> "handleLoadSavedScenario", id |-> scenario.id,
             overrides |-> scenario.overrides]
    /\ UNCHANGED <<defaultsFetch, previewVars, calcVars, panelVars>>

NextScenarios ==
  \/ SetMacroValue
  \/ SetBondValue
  \/ SetEquityValue
  \/ SetEquityGKValue
  \/ SetEquityModelType
  \/ SetAbsoluteReturnValue
  \/ SetBaseCurrency
  \/ SignIn
  \/ SignOut
  \/ LoadSavedScenarios
  \/ HandleSaveScenario
  \/ HandleDeleteScenario
  \/ HandleLoadSavedScenario

SpecScenarios == Init /\ [][NextScenarios]_vars

\* C22: scenario persistence is routed by login state.  A scenario saved
\* while a user is logged in is stored in Supabase (a row of react_scenarios
\* owned by that user), and a scenario saved while no user is logged in is
\* stored in localStorage.
C22_RoutedByLogin ==
  lastOp.op = "handleSaveScenario" =>
    IF lastOp.userId # NoUserId
    THEN \E row \in react_scenarios :
           row.id = lastOp.id /\ row.user_id = lastOp.userId
    ELSE lastOp.id \in DOMAIN localStorage

\* C25: save/load round trip.  For every field in the payload getOverrides
\* produced when a scenario was saved, loading the saved scenario stores a
\* value within the tolerance of the field's value at save time, in the same
\* unit and in the same input set: an equity field saved while the
\* Grinold-Kroner model was selected is restored in the Grinold-Kroner set.
\* Stated for scenarios saved with finite inputs.
C25_SaveLoadRoundTrip ==
  [][lastOp'.op = "handleLoadSavedScenario" =>
       LET O == lastOp'.overrides
           atSave == saveLog[lastOp'.id]
           finiteAtSave ==
             /\ \A r \in MacroRegions : FiniteRecord(atSave.macro[r])
             /\ \A t \in BondTypes : FiniteRecord(atSave.bonds[t])
             /\ \A r \in EquityRegions :
                  FiniteRecord(atSave.equity[r])
                  /\ FiniteRecord(atSave.equityGK[r])
             /\ FiniteRecord(atSave.absoluteReturn)
           near(a, b) == IsFinite(a) /\ IsFinite(b) /\ Abs(a - b) <= 1000
       IN finiteAtSave =>
          /\ \A region \in MacroRegions : \A key \in DOMAIN macro[region] :
               InPayload(O, region, key) =>
                 near(macro'[region][key], atSave.macro[region][key])
          /\ \A type \in BondTypes :
               \A key \in DOMAIN SectionOf(O, "bonds_" \o type) :
                 near(bonds'[type][key], atSave.bonds[type][key])
          /\ \A region \in EquityRegions :
               \A key \in DOMAIN SectionOf(O, "equity_" \o region) :
                 IF atSave.equityModelType = "gk"
                 THEN near(equityGK'[region][key],
                           atSave.equityGK[region][key])
                 ELSE near(equity'[region][key], atSave.equity[region][key])
          /\ \A key \in DOMAIN SectionOf(O, "absolute_return") :
               near(absoluteReturn'[key], atSave.absoluteReturn[key])]_vars

\* C27: after saveScenario has returned a scenario for a user, every later
\* getScenarios call for the same user, with no delete of the scenario in
\* between, returns a list that contains it, whichever backing store the
\* call uses.
C27_SavedThenListed ==
  "listed" \in DOMAIN lastOp =>
    \A id \in DOMAIN saveLog :
      (saveLog[id].userId = lastOp.userId /\ saveLog[id].deletedBy = {})
        => id \in lastOp.listed

====
